---- MODULE Spec2Model ----
(***************************************************************************)
(* Model of the growable-array simulation of src/src/main.rs: the Array    *)
(* struct (grow / extend / append_old_data) and the part of main's         *)
(* 'running loop that drives it once per frame ("tick").                   *)
(*                                                                         *)
(* The growth factor is an f64 in the source.  It is modelled as an exact  *)
(* ratio num/den whose denominator is a power of two, so that for the      *)
(* small capacities explored the f64 product capacity * growth is exact    *)
(* and ceil() of it equals the integer ceiling division used here.         *)
(* Time (std::time::Instant) is modelled by the number of completed ticks. *)
(***************************************************************************)
EXTENDS Integers, Sequences, FiniteSets, TLC

\* ---------------------------------------------------------------- bounds
\* Number of loop iterations explored.
MaxTicks == 30

\* Largest hard limit drawn for Array::new.
MaxLimit == 5

\* Number of Array method calls explored when the methods are called in any order.
MaxCalls == 7

\* -------------------------------------------------------------- inputs
\* Option<usize>
None == [some |-> FALSE, val |-> 0]

Some(n) == [some |-> TRUE, val |-> n]

\* f64 growth factors, as exact ratios: 0.5, 1.0, 1.25, 1.5, 2.0, 3.0
Ratio(n, d) == [num |-> n, den |-> d]

Two == Ratio(2, 1)

Growths == {Ratio(1, 2), Ratio(1, 1), Ratio(5, 4), Ratio(3, 2), Two, Ratio(3, 1)}

GrowthsGT1 == {g \in Growths : g.num > g.den}

HardLimits == {None} \cup {Some(n) : n \in 1..MaxLimit}

\* The product rounded down and incremented, in place of ceil().
CeilMul_floor1(x, g) == (x * g.num) \div g.den + 1

\* The growth factor added to, instead of multiplied with, the capacity.
CeilMul_add(x, g) == x + (g.num + g.den - 1) \div g.den

\* (x as f64 * g).ceil() as usize, for a non-negative x and a positive ratio g
CeilMul(x, g) == (x * g.num + g.den - 1) \div g.den

\* ---------------------------------------------------------------- Array
\* Array::new
new(growth, hard_limit) ==
    [ growth            |-> growth,
      old_data_size     |-> 0,
      size              |-> 0,
      capacity          |-> 1,
      hard_limit        |-> hard_limit,
      old_data_appended |-> 0,
      copy_operations   |-> 0,
      resizes           |-> 0 ]

\* grow() without the capacity test.
grow_unchecked(a) ==
    [ok |-> TRUE, val |-> a.size + 1, array |-> [a EXCEPT !.size = a.size + 1]]

\* grow() refusing the last free slot (>= for >).
grow_offbyone(a) ==
    LET new_size == a.size + 1 IN
    IF new_size >= a.capacity
    THEN [ok |-> FALSE, val |-> 0, array |-> a]
    ELSE [ok |-> TRUE, val |-> new_size, array |-> [a EXCEPT !.size = new_size]]

\* Array::grow : Result<usize, ()> together with the array it leaves behind
grow(a) ==
    LET new_size == a.size + 1 IN
    IF new_size > a.capacity
    THEN [ok |-> FALSE, val |-> 0, array |-> a]
    ELSE [ok |-> TRUE, val |-> new_size, array |-> [a EXCEPT !.size = new_size]]

\* extend() without the clamp to the hard limit.
extend_noclamp(a) ==
    [a EXCEPT !.resizes = a.resizes + 1,
              !.old_data_size = a.size,
              !.capacity = CeilMul(a.capacity, a.growth),
              !.old_data_appended = 0]

\* extend() clamping one below the hard limit.
extend_clamp_low(a) ==
    LET cap == CeilMul(a.capacity, a.growth)
        clamped == IF a.hard_limit.some /\ cap > a.hard_limit.val
                   THEN a.hard_limit.val - 1
                   ELSE cap
    IN [a EXCEPT !.resizes = a.resizes + 1,
                 !.old_data_size = a.size,
                 !.capacity = clamped,
                 !.old_data_appended = 0]

\* extend() without the reset of old_data_appended.
extend_noreset(a) ==
    LET cap == CeilMul(a.capacity, a.growth)
        clamped == IF a.hard_limit.some /\ cap > a.hard_limit.val
                   THEN a.hard_limit.val
                   ELSE cap
    IN [a EXCEPT !.resizes = a.resizes + 1,
                 !.old_data_size = a.size,
                 !.capacity = clamped]

\* Array::extend
extend(a) ==
    LET cap == CeilMul(a.capacity, a.growth)
        clamped == IF a.hard_limit.some /\ cap > a.hard_limit.val
                   THEN a.hard_limit.val
                   ELSE cap
    IN [a EXCEPT !.resizes = a.resizes + 1,
                 !.old_data_size = a.size,
                 !.capacity = clamped,
                 !.old_data_appended = 0]

\* append_old_data() stopping one element short of old_data_size.
append_old_data_short(a) ==
    IF a.old_data_appended + 1 < a.old_data_size
    THEN [ok |-> TRUE, val |-> a.old_data_appended + 1,
          array |-> [a EXCEPT !.copy_operations = a.copy_operations + 1,
                              !.old_data_appended = a.old_data_appended + 1]]
    ELSE [ok |-> FALSE, val |-> 0, array |-> a]

\* append_old_data() accepting one element beyond old_data_size (<= for <).
append_old_data_le(a) ==
    IF a.old_data_appended <= a.old_data_size
    THEN [ok |-> TRUE, val |-> a.old_data_appended + 1,
          array |-> [a EXCEPT !.copy_operations = a.copy_operations + 1,
                              !.old_data_appended = a.old_data_appended + 1]]
    ELSE [ok |-> FALSE, val |-> 0, array |-> a]

\* append_old_data() that forgets to count the copy.
append_old_data_nocount(a) ==
    IF a.old_data_appended < a.old_data_size
    THEN [ok |-> TRUE, val |-> a.old_data_appended + 1,
          array |-> [a EXCEPT !.old_data_appended = a.old_data_appended + 1]]
    ELSE [ok |-> FALSE, val |-> 0, array |-> a]

\* Array::append_old_data : Result<usize, ()> together with the array it leaves
append_old_data(a) ==
    IF a.old_data_appended < a.old_data_size
    THEN [ok |-> TRUE, val |-> a.old_data_appended + 1,
          array |-> [a EXCEPT !.copy_operations = a.copy_operations + 1,
                              !.old_data_appended = a.old_data_appended + 1]]
    ELSE [ok |-> FALSE, val |-> 0, array |-> a]

\* main, line 137: memory_efficiency, an f64 quotient, kept as numerator and
\* denominator
memory_efficiency(a) ==
    [num |-> (a.size - a.old_data_size) + a.old_data_appended,
     den |-> a.capacity]

\* ----------------------------------------------------------------- main
VARIABLES
    array,               \* let mut array
    limited_reached,     \* let mut limited_reached
    last_limit_reached,  \* let mut last_limit_reached (an Instant; here a tick number)
    pc,                  \* position in the body of 'running
    ticks,               \* completed iterations of 'running (the clock)
    tick_start,          \* history: the array at the start of the current iteration
    first_grow,          \* history: outcome of this iteration's first grow(): "none", "ok", "err"
    retry_grow,          \* history: outcome of this iteration's second grow(): "none", "ok", "err"
    extend_calls,        \* history: extend() calls so far
    extend_tick,         \* history: value of ticks when extend() was last called, -1 if never
    extend_now,          \* history: extend() calls in this iteration
    append_now,          \* history: append_old_data() calls in this iteration
    append_ok,           \* history: append_old_data() calls that returned Ok so far
    call                 \* history: the last Array method call, its result and the array before it

vars == << array, limited_reached, last_limit_reached, pc, ticks, tick_start,
           first_grow, retry_grow, extend_calls, extend_tick, extend_now,
           append_now, append_ok, call >>

\* No Array method called yet.
NoCall(a) ==
    [n |-> 0, op |-> "new", ok |-> TRUE, val |-> 0, before |-> a,
     prev_op |-> "none", prev_ok |-> TRUE]

\* The record of a call of method op on the current array with result (ok, val).
Called(op, ok, val) ==
    [n |-> call.n + 1, op |-> op, ok |-> ok, val |-> val, before |-> array,
     prev_op |-> call.op, prev_ok |-> call.ok]

\* main, lines 87 and 122-123: the state when 'running is first entered
InitWith(G, H) ==
    /\ \E g \in G, h \in H : array = new(g, h)
    /\ limited_reached = FALSE
    /\ last_limit_reached = 0
    /\ pc = "head"
    /\ ticks = 0
    /\ tick_start = array
    /\ first_grow = "none"
    /\ retry_grow = "none"
    /\ extend_calls = 0
    /\ extend_tick = -1
    /\ extend_now = 0
    /\ append_now = 0
    /\ append_ok = 0
    /\ call = NoCall(array)

Init == InitWith(Growths, HardLimits)

\* Top of 'running: a Quit event, or three seconds after the limit was
\* reached, leaves the loop; otherwise the iteration starts.
LoopHead(quit, grace_over) ==
    /\ pc = "head"
    /\ ticks < MaxTicks
    /\ IF quit \/ (grace_over /\ limited_reached)
       THEN /\ pc' = "done"
            /\ UNCHANGED << tick_start, first_grow, retry_grow, extend_now, append_now >>
       ELSE /\ pc' = "grow"
            /\ tick_start' = array
            /\ first_grow' = "none"
            /\ retry_grow' = "none"
            /\ extend_now' = 0
            /\ append_now' = 0
    /\ UNCHANGED << array, limited_reached, last_limit_reached, ticks,
                    extend_calls, extend_tick, append_ok, call >>

\* The first attempt, extending on every failure whatever the migration state.
Grow_eager ==
    /\ pc = "grow"
    /\ LET r == grow(array) IN
         /\ array' = r.array
         /\ call' = Called("grow", r.ok, r.val)
         /\ first_grow' = IF r.ok THEN "ok" ELSE "err"
         /\ pc' = IF r.ok THEN "append" ELSE "extend"
    /\ UNCHANGED << limited_reached, last_limit_reached, ticks, tick_start,
                    retry_grow, extend_calls, extend_tick, extend_now,
                    append_now, append_ok >>

\* match array.grow(): the first attempt of the iteration
Grow ==
    /\ pc = "grow"
    /\ LET r == grow(array) IN
         /\ array' = r.array
         /\ call' = Called("grow", r.ok, r.val)
         /\ first_grow' = IF r.ok THEN "ok" ELSE "err"
         /\ pc' = IF r.ok THEN "append"
                  ELSE IF array.old_data_appended = array.old_data_size
                       THEN "extend"
                       ELSE "append"
    /\ UNCHANGED << limited_reached, last_limit_reached, ticks, tick_start,
                    retry_grow, extend_calls, extend_tick, extend_now,
                    append_now, append_ok >>

\* array.extend() in the Err arm
Extend ==
    /\ pc = "extend"
    /\ array' = extend(array)
    /\ call' = Called("extend", TRUE, 0)
    /\ extend_calls' = extend_calls + 1
    /\ extend_now' = extend_now + 1
    /\ extend_tick' = ticks
    /\ pc' = "retry"
    /\ UNCHANGED << limited_reached, last_limit_reached, ticks, tick_start,
                    first_grow, retry_grow, append_now, append_ok >>

\* The retry with the test of limited_reached inverted: the flag is never set.
Retry_inverted ==
    /\ pc = "retry"
    /\ LET r == grow(array) IN
         /\ array' = r.array
         /\ call' = Called("grow", r.ok, r.val)
         /\ retry_grow' = IF r.ok THEN "ok" ELSE "err"
         /\ IF ~r.ok /\ limited_reached
            THEN /\ limited_reached' = TRUE
                 /\ last_limit_reached' = ticks
            ELSE UNCHANGED << limited_reached, last_limit_reached >>
    /\ pc' = "append"
    /\ UNCHANGED << ticks, tick_start, first_grow, extend_calls, extend_tick,
                    extend_now, append_now, append_ok >>

\* if let Err(_) = array.grow() { ... } directly after extend()
Retry ==
    /\ pc = "retry"
    /\ LET r == grow(array) IN
         /\ array' = r.array
         /\ call' = Called("grow", r.ok, r.val)
         /\ retry_grow' = IF r.ok THEN "ok" ELSE "err"
         /\ IF ~r.ok /\ ~limited_reached
            THEN /\ limited_reached' = TRUE
                 /\ last_limit_reached' = ticks
            ELSE UNCHANGED << limited_reached, last_limit_reached >>
    /\ pc' = "append"
    /\ UNCHANGED << ticks, tick_start, first_grow, extend_calls, extend_tick,
                    extend_now, append_now, append_ok >>

\* match array.append_old_data(), and the rest of the iteration
AppendOldData ==
    /\ pc = "append"
    /\ LET r == append_old_data(array) IN
         /\ array' = r.array
         /\ call' = Called("append_old_data", r.ok, r.val)
         /\ append_ok' = IF r.ok THEN append_ok + 1 ELSE append_ok
    /\ append_now' = append_now + 1
    /\ ticks' = ticks + 1
    /\ pc' = "head"
    /\ UNCHANGED << limited_reached, last_limit_reached, tick_start,
                    first_grow, retry_grow, extend_calls, extend_tick, extend_now >>

Next ==
    \/ \E quit \in BOOLEAN, grace_over \in BOOLEAN : LoopHead(quit, grace_over)
    \/ Grow
    \/ Extend
    \/ Retry
    \/ AppendOldData

Spec == Init /\ [][Next]_vars

\* Scenario A of the specification: growth 2.0, no hard limit.
InitA == InitWith({Two}, {None})

SpecA == InitA /\ [][Next]_vars

\* Runs in which the window is never closed: no Quit event is delivered, and
\* the loop body, which never blocks, keeps being executed.
InitLive == InitWith(GrowthsGT1, HardLimits \ {None})

NextLive ==
    \/ \E grace_over \in BOOLEAN : LoopHead(FALSE, grace_over)
    \/ Grow
    \/ Extend
    \/ Retry
    \/ AppendOldData

LiveSpec == InitLive /\ [][NextLive]_vars /\ WF_vars(NextLive)

\* The Array methods called in any order by an arbitrary caller, as a unit
\* test of the struct would: the driver state is left alone.
driver == << limited_reached, last_limit_reached, pc, ticks, tick_start,
             first_grow, retry_grow, extend_now, append_now, extend_tick >>

ApiGrow ==
    /\ call.n < MaxCalls
    /\ LET r == grow(array) IN
         /\ array' = r.array
         /\ call' = Called("grow", r.ok, r.val)
    /\ UNCHANGED << driver, extend_calls, append_ok >>

ApiExtend ==
    /\ call.n < MaxCalls
    /\ array' = extend(array)
    /\ call' = Called("extend", TRUE, 0)
    /\ extend_calls' = extend_calls + 1
    /\ UNCHANGED << driver, append_ok >>

ApiAppendOldData ==
    /\ call.n < MaxCalls
    /\ LET r == append_old_data(array) IN
         /\ array' = r.array
         /\ call' = Called("append_old_data", r.ok, r.val)
         /\ append_ok' = IF r.ok THEN append_ok + 1 ELSE append_ok
    /\ UNCHANGED << driver, extend_calls >>

NextApi ==
    \/ ApiGrow
    \/ ApiExtend
    \/ ApiAppendOldData

ApiSpec == Init /\ [][NextApi]_vars

\* ------------------------------------------------------------ properties
GT1 == array.growth.num > array.growth.den

EndOfTick == pc = "head" /\ ticks > 0

\* C1: for a growth factor above 1, in every reachable state (initially,
\* after each grow / extend / append_old_data and at the end of every tick)
\* old_data_appended <= old_data_size <= size <= capacity.
C1_Ordering ==
    GT1 => /\ array.old_data_appended <= array.old_data_size
           /\ array.old_data_size <= array.size
           /\ array.size <= array.capacity

\* A growth-factor-above-1 state past an extend, in the middle of a
\* migration and with free capacity: all three inequalities are strict.
C1_Witness ==
    /\ GT1
    /\ array.resizes >= 2
    /\ 0 < array.old_data_appended
    /\ array.old_data_appended < array.old_data_size
    /\ array.old_data_size < array.size
    /\ array.size < array.capacity

\* C2: with a hard limit set, capacity <= hard limit in every reachable
\* state, in particular directly after every extend(), for every growth factor.
C2_CapacityWithinLimit ==
    array.hard_limit.some => array.capacity <= array.hard_limit.val

\* Directly after an extend() whose unclamped capacity exceeded the limit.
C2_Witness ==
    /\ pc = "retry"
    /\ array.hard_limit.some
    /\ CeilMul(tick_start.capacity, array.growth) > array.hard_limit.val
    /\ array.capacity = array.hard_limit.val

\* C3: for a growth factor above 1 capacity never decreases from one state
\* to the next; once limited_reached is set no step changes capacity, and
\* capacity is also unchanged within the iteration that sets it.
C3_CapacityMonotone ==
    /\ [][GT1 => /\ array'.capacity >= array.capacity
                 /\ (limited_reached => array'.capacity = array.capacity)]_vars
    /\ [](GT1 /\ limited_reached => array.capacity = tick_start.capacity)

\* The limit was reached after the capacity had grown, and extend() has been
\* called again in a later iteration.
C3_Witness ==
    /\ GT1
    /\ limited_reached
    /\ array.capacity > 1
    /\ extend_tick > last_limit_reached

\* C4: once limited_reached is set, the iterations after the one that set it
\* change nothing in the array: size, capacity, old_data_size,
\* old_data_appended, resizes and copy_operations keep their values.
C4_FrozenAfterLimit ==
    [][(GT1 /\ array.hard_limit.some /\ limited_reached
          /\ ticks > last_limit_reached) => array' = array]_vars

\* C5: with growth 2.0 and a hard limit, limited_reached is set once and its
\* entry time is written once, and resizes never increases once it is set.
C5_LimitOnceResizesStop ==
    [][(array.growth = Two /\ array.hard_limit.some /\ limited_reached)
         => /\ limited_reached'
            /\ last_limit_reached' = last_limit_reached
            /\ array'.resizes = array.resizes]_vars

\* C6: an iteration calls extend() exactly when its first grow() failed with
\* old_data_appended = old_data_size, so that size = capacity at every
\* extend(); an iteration whose grow() fails with old_data_appended <
\* old_data_size calls no extend(), leaves size, capacity, old_data_size and
\* resizes as they were and advances old_data_appended by exactly one.
C6_ExtendIffBlockedAndMigrated ==
    /\ extend_now <= 1
    /\ (pc = "retry" => /\ extend_now = 1
                        /\ tick_start.size = tick_start.capacity)
    /\ (pc \in {"retry", "append"} \/ EndOfTick) =>
         (extend_now = 1 <=>
            /\ first_grow = "err"
            /\ tick_start.old_data_appended = tick_start.old_data_size)
    /\ (EndOfTick /\ first_grow = "err"
           /\ tick_start.old_data_appended < tick_start.old_data_size) =>
         /\ extend_now = 0
         /\ array.size = tick_start.size
         /\ array.capacity = tick_start.capacity
         /\ array.old_data_size = tick_start.old_data_size
         /\ array.resizes = tick_start.resizes
         /\ array.old_data_appended = tick_start.old_data_appended + 1

\* The end of an iteration in which the expansion was deferred.
C6_Witness ==
    /\ EndOfTick
    /\ first_grow = "err"
    /\ tick_start.old_data_appended < tick_start.old_data_size
    /\ array.old_data_appended = tick_start.old_data_appended + 1

Min(a, b) == IF a < b THEN a ELSE b

\* C7: every iteration calls append_old_data() exactly once, so that after
\* an extend() that sets old_data_size = N, old_data_appended is N at the end
\* of the N-th iteration at the latest (the iteration of the extend()
\* included), and extend() is only called with the migration complete.
C7_MigrationBounded ==
    /\ EndOfTick => append_now = 1
    /\ (EndOfTick /\ extend_tick >= 0) =>
         array.old_data_appended = Min(array.old_data_size, ticks - extend_tick)
    /\ pc = "retry" =>
         tick_start.old_data_appended = tick_start.old_data_size

\* The end of the iteration that completes a migration of three or more
\* elements, exactly old_data_size iterations after the extend().
C7_Witness ==
    /\ EndOfTick
    /\ extend_tick >= 0
    /\ array.old_data_size >= 3
    /\ ticks - extend_tick = array.old_data_size
    /\ array.old_data_appended = array.old_data_size

\* C8 as stated: limited_reached is set only with a hard limit, by a failed
\* grow() directly after extend(), and while it is set capacity equals the
\* hard limit and size equals capacity.
C8_LimitOnlyAtHardLimit ==
    limited_reached => /\ array.hard_limit.some
                       /\ array.capacity = array.hard_limit.val
                       /\ array.size = array.capacity

\* C8 amended: the same for a growth factor above 1.
C8_LimitOnlyAtHardLimitGT1 ==
    /\ [][(~limited_reached /\ limited_reached') =>
            /\ pc = "retry"
            /\ ~grow(array).ok
            /\ retry_grow' = "err"]_vars
    /\ [](GT1 /\ limited_reached => /\ array.hard_limit.some
                                    /\ array.capacity = array.hard_limit.val
                                    /\ array.size = array.capacity)

\* The limit is reached with a growth factor above 1 after real growth.
C8_Witness ==
    /\ GT1
    /\ limited_reached
    /\ last_limit_reached = ticks
    /\ pc = "append"
    /\ array.hard_limit.val >= 3

\* C9: with a growth factor above 1 and a hard limit L, every run that keeps
\* iterating reaches capacity = L and size = L and sets limited_reached;
\* deferred expansions do not block it.
C9_EventuallyLimit ==
    <>(/\ limited_reached
       /\ array.capacity = array.hard_limit.val
       /\ array.size = array.hard_limit.val)

\* The limit is reached in a run that went through a deferred expansion:
\* more iterations were needed than elements admitted.
C9_Witness ==
    /\ limited_reached
    /\ last_limit_reached = ticks
    /\ array.capacity = array.hard_limit.val
    /\ array.size = array.hard_limit.val
    /\ ticks > array.size

\* C10 as stated: with growth 2.0 and no hard limit the first iteration runs
\* grow() fails, extend() to capacity 2, grow() succeeds, and ends with
\* size = 1, capacity = 2, resizes = 1.
C10_FirstTickExpands ==
    (array.growth = Two /\ ~array.hard_limit.some /\ pc = "head" /\ ticks = 1) =>
        /\ first_grow = "err"
        /\ extend_now = 1
        /\ retry_grow = "ok"
        /\ array.size = 1
        /\ array.capacity = 2
        /\ array.resizes = 1

\* C10 amended: the first iteration's grow() succeeds without extend() and
\* ends with size = 1, capacity = 1, resizes = 0; it is the second iteration
\* that runs grow() fails, extend() to capacity 2, grow() succeeds, and ends
\* with size = 2, capacity = 2, resizes = 1.
C10_SecondTickExpands ==
    /\ (array.growth = Two /\ ~array.hard_limit.some /\ pc = "head" /\ ticks = 1) =>
        /\ first_grow = "ok"
        /\ extend_now = 0
        /\ array.size = 1
        /\ array.capacity = 1
        /\ array.resizes = 0
    /\ (array.growth = Two /\ ~array.hard_limit.some /\ pc = "head" /\ ticks = 2) =>
        /\ first_grow = "err"
        /\ extend_now = 1
        /\ retry_grow = "ok"
        /\ array.size = 2
        /\ array.capacity = 2
        /\ array.resizes = 1

\* The end of the second iteration of scenario A.
C10_Witness ==
    /\ array.growth = Two
    /\ ~array.hard_limit.some
    /\ pc = "head"
    /\ ticks = 2
    /\ array.resizes = 1

\* C11: with growth 2.0 and no hard limit, capacity = 2^resizes in every
\* reachable state: the k-th extend() leaves capacity 2^k.
C11_CapacityPowerOfTwo ==
    (array.growth = Two /\ ~array.hard_limit.some) =>
        array.capacity = 2 ^ array.resizes

\* Directly after the fourth extend() of scenario A.
C11_Witness ==
    /\ array.growth = Two
    /\ ~array.hard_limit.some
    /\ pc = "retry"
    /\ array.resizes = 4
    /\ array.capacity = 16

\* C12: grow() returns Ok exactly when size + 1 <= capacity; on Ok size has
\* grown by exactly 1, the new size is the value returned and no other field
\* has changed; on Err no field has changed.
C12_GrowContract ==
    [][(call'.n = call.n + 1 /\ call'.op = "grow") =>
         /\ call'.ok <=> (array.size + 1 <= array.capacity)
         /\ call'.ok => /\ array' = [array EXCEPT !.size = array.size + 1]
                        /\ call'.val = array'.size
         /\ ~call'.ok => array' = array]_vars

\* A grow() that failed right after one that succeeded, on a grown array.
C12_Witness ==
    /\ call.op = "grow"
    /\ ~call.ok
    /\ call.prev_op = "grow"
    /\ call.prev_ok
    /\ call.before.size >= 2
    /\ array = call.before

\* c is the ceiling of x * g: the least integer not below the product.
IsCeil(c, x, g) == c * g.den >= x * g.num /\ (c - 1) * g.den < x * g.num

\* C13: extend(), from any state, sets old_data_size to the current size,
\* capacity to ceil(capacity * growth) clamped to the hard limit when there
\* is one, old_data_appended to 0, adds exactly 1 to resizes and leaves size,
\* copy_operations, growth and hard_limit as they were.
C13_ExtendContract ==
    [][(call'.n = call.n + 1 /\ call'.op = "extend") =>
         /\ array'.old_data_size = array.size
         /\ \E c \in 0..(array.capacity * array.growth.num + 1) :
               /\ IsCeil(c, array.capacity, array.growth)
               /\ array'.capacity =
                    IF array.hard_limit.some /\ array.hard_limit.val < c
                    THEN array.hard_limit.val
                    ELSE c
         /\ array'.old_data_appended = 0
         /\ array'.resizes = array.resizes + 1
         /\ array'.size = array.size
         /\ array'.copy_operations = array.copy_operations
         /\ array'.growth = array.growth
         /\ array'.hard_limit = array.hard_limit]_vars

\* An extend() called in the middle of a migration, with free capacity, whose
\* result was clamped to the hard limit.
C13_Witness ==
    /\ call.op = "extend"
    /\ call.before.old_data_appended > 0
    /\ call.before.old_data_appended < call.before.old_data_size
    /\ call.before.size < call.before.capacity
    /\ array.hard_limit.some
    /\ array.capacity = array.hard_limit.val
    /\ array.capacity * array.growth.den < call.before.capacity * array.growth.num

\* C14: append_old_data() returns Ok exactly when old_data_appended <
\* old_data_size, and then adds exactly 1 to old_data_appended and to
\* copy_operations; with old_data_appended = old_data_size every call,
\* however often repeated, returns Err and changes no field.
C14_AppendContract ==
    [][(call'.n = call.n + 1 /\ call'.op = "append_old_data") =>
         /\ call'.ok <=> (array.old_data_appended < array.old_data_size)
         /\ call'.ok =>
              /\ array' = [array EXCEPT
                             !.old_data_appended = array.old_data_appended + 1,
                             !.copy_operations = array.copy_operations + 1]
              /\ call'.val = array'.old_data_appended
         /\ array.old_data_appended = array.old_data_size =>
              /\ ~call'.ok
              /\ array' = array
              /\ array'.old_data_appended = array'.old_data_size]_vars

\* Two consecutive append_old_data() calls that failed after a completed
\* migration: the array is still the one before the second call.
C14_Witness ==
    /\ call.op = "append_old_data"
    /\ ~call.ok
    /\ call.prev_op = "append_old_data"
    /\ ~call.prev_ok
    /\ array.old_data_size >= 1
    /\ array.copy_operations >= 1
    /\ array = call.before

\* C15: directly after every extend() of the driver size = old_data_size and
\* old_data_appended = 0, so the efficiency numerator is 0; one successful
\* grow() from there makes it 1, and so does one successful
\* append_old_data() from there, over the same capacity in all three cases.
C15_EfficiencyAfterExtend ==
    /\ pc = "retry" =>
         /\ array.size = array.old_data_size
         /\ array.old_data_appended = 0
         /\ memory_efficiency(array) = [num |-> 0, den |-> array.capacity]
         /\ grow(array).ok =>
              memory_efficiency(grow(array).array) = [num |-> 1, den |-> array.capacity]
         /\ append_old_data(array).ok =>
              memory_efficiency(append_old_data(array).array)
                = [num |-> 1, den |-> array.capacity]
    /\ (pc = "append" /\ extend_now = 1 /\ retry_grow = "ok") =>
         memory_efficiency(array) = [num |-> 1, den |-> call.before.capacity]
    /\ (pc = "head" /\ extend_now = 1 /\ retry_grow = "err" /\ call.ok) =>
         memory_efficiency(array) = [num |-> 1, den |-> call.before.capacity]

\* Directly after an extend() of two or more elements from which both a
\* grow() and an append_old_data() would succeed.
C15_Witness ==
    /\ pc = "retry"
    /\ array.old_data_size >= 2
    /\ grow(array).ok
    /\ append_old_data(array).ok

\* C16: resizes is the number of extend() calls made so far and
\* copy_operations the number of append_old_data() calls that returned Ok so
\* far; neither counter ever decreases.
C16_Counters ==
    /\ [](array.resizes = extend_calls /\ array.copy_operations = append_ok)
    /\ [][/\ array'.resizes >= array.resizes
          /\ array'.copy_operations >= array.copy_operations]_vars

\* The end of an iteration after several extends, successful copies and at
\* least one append_old_data() that returned Err.
C16_Witness ==
    /\ EndOfTick
    /\ array.resizes >= 3
    /\ array.copy_operations >= 4
    /\ array.copy_operations < ticks

LimitOne == GT1 /\ array.hard_limit = Some(1)

\* C17: with hard limit 1 and a growth factor above 1, the first iteration
\* whose grow() fails is the one that sets limited_reached: its extend()
\* leaves capacity at 1, the retry fails and size stays 1.
C17_LimitOneImmediate ==
    LimitOne =>
        /\ (first_grow = "err" /\ pc \in {"append", "head", "done"})
             => limited_reached
        /\ (limited_reached /\ last_limit_reached = ticks /\ pc = "append") =>
             /\ extend_calls = 1
             /\ first_grow = "err"
             /\ retry_grow = "err"
             /\ tick_start.size = 1
             /\ array.size = 1
             /\ array.capacity = 1

\* With hard limit 1, right after the retry that set limited_reached.
C17_Witness ==
    /\ LimitOne
    /\ limited_reached
    /\ last_limit_reached = ticks
    /\ pc = "append"
    /\ first_grow = "err"

\* C18: with a growth factor of at most 1 (and above 0), with or without a
\* hard limit, capacity is 1 in every reachable state, size never exceeds 1
\* and the grow() retried after every extend() fails.
C18_NoGrowthAtOrBelowOne ==
    ~GT1 =>
        /\ array.capacity = 1
        /\ array.size <= 1
        /\ retry_grow # "ok"
        /\ (pc \in {"append", "head"} /\ extend_now = 1) => retry_grow = "err"

\* A growth factor of at most 1, no hard limit, after the third extend()
\* whose retry failed.
C18_Witness ==
    /\ ~GT1
    /\ ~array.hard_limit.some
    /\ pc = "append"
    /\ retry_grow = "err"
    /\ array.resizes >= 3

ScenarioA == array.growth = Two /\ ~array.hard_limit.some

\* C19: with growth 2.0 and no hard limit no expansion is deferred: the
\* migration is complete whenever the capacity is full at the end of an
\* iteration, every iteration admits exactly one element and size equals
\* the number of iterations executed.
C19_NeverDeferred ==
    ScenarioA =>
        /\ ~(pc \in {"append", "head"} /\ first_grow = "err" /\ extend_now = 0)
        /\ (EndOfTick /\ array.size = array.capacity) =>
             array.old_data_appended = array.old_data_size
        /\ EndOfTick => array.size = tick_start.size + 1
        /\ pc = "head" => array.size = ticks

\* The end of a late iteration of scenario A that extended.
C19_Witness ==
    /\ ScenarioA
    /\ EndOfTick
    /\ ticks >= 9
    /\ extend_now = 1
    /\ array.size = ticks

\* C20: with growth 2.0 and no hard limit, at the end of every iteration
\* with size >= 1, copy_operations < size.
C20_CopiesBelowSize ==
    (ScenarioA /\ EndOfTick /\ array.size >= 1) =>
        array.copy_operations < array.size

\* The end of an iteration of scenario A with many copies made, one fewer
\* than elements admitted.
C20_Witness ==
    /\ ScenarioA
    /\ EndOfTick
    /\ array.copy_operations >= 8
    /\ array.copy_operations + 1 = array.size

====
